---- MODULE Spec2Model ----
(***************************************************************************)
(* A model of cpp/src_prims/selection/knn.h: merge_tables (the k-way merge *)
(* of per-shard candidate lists) and brute_force_knn (the multi-shard      *)
(* dispatch around it).                                                    *)
(*                                                                         *)
(* Distances are squared L2 distances of points on an integer grid, so the *)
(* model draws them from the perfect squares 0, 1, 4, ...; FltMax stands   *)
(* for FLT_MAX, the distance faiss stores beside a -1 label.               *)
(* Arrays that the code indexes from 0 are functions on 0..len-1; the heap *)
(* arrays are indexed from 1, as faiss does after bh_val-- and bh_ids--.   *)
(***************************************************************************)
EXTENDS Integers, Sequences, FiniteSets

\* ---- bounds of the model ----
MaxShard == 3       \* nshard of a direct merge_tables call is in 1..MaxShard
MaxParams == 2      \* n_params of a brute_force_knn call is in 1..MaxParams
MaxN == 2           \* n (query rows) of a direct merge_tables call is in 1..MaxN
MaxQueries == 1     \* n of a brute_force_knn call is in 1..MaxQueries
MaxK == 2           \* k is in 0..MaxK
MaxCells == 6       \* nshard * n * k, the stacked buffers' length, is at most this
MaxDist == 2        \* distances are d*d for d in 0..MaxDist
MaxSize == 2        \* sizes[i] is in 0..MaxSize
MaxWorkers == 2     \* threads of the omp parallel region of merge_tables

Workers == 1..MaxWorkers
Dists == {d * d : d \in 0..MaxDist}
FltMax == MaxDist * MaxDist + 1
\* what sqrt returns on a negative argument; kept apart from every float
NaN == 0 - (FltMax + 1)

Min(a, b) == IF a < b THEN a ELSE b

\* ---- faiss::CMin<float, int>, the comparator brute_force_knn passes ----
\* variants: faiss::CMax's comparison, and a comparison that also moves ties
C_cmpMax(a, b) == a > b
C_cmpNonStrict(a, b) == a <= b
\* CMin::cmp and CMin::neutral (-FLT_MAX)
C_cmp(a, b) == a < b
C_neutral == 0 - FltMax

\* ---- faiss::heap_push<C> / heap_pop<C> on (bh_val, bh_ids), 1-based ----
RECURSIVE SiftUp(_, _, _, _)
SiftUp(i, bh_val, bh_ids, val) ==
  IF i > 1 /\ C_cmp(val, bh_val[i \div 2])
    THEN SiftUp(i \div 2, [bh_val EXCEPT ![i] = bh_val[i \div 2]],
                [bh_ids EXCEPT ![i] = bh_ids[i \div 2]], val)
    ELSE <<i, bh_val, bh_ids>>

\* heap_push(k, bh_val, bh_ids, val, ids): k is the size after the push
heap_push(hk, bh_val, bh_ids, val, ids) ==
  LET r == SiftUp(hk, bh_val, bh_ids, val)
  IN  <<[r[2] EXCEPT ![r[1]] = val], [r[3] EXCEPT ![r[1]] = ids]>>

RECURSIVE SiftDown(_, _, _, _, _)
SiftDown(i, hk, bh_val, bh_ids, val) ==
  LET i1 == 2 * i
      i2 == 2 * i + 1
  IN  IF i1 > hk THEN <<i, bh_val, bh_ids>>
      ELSE IF i2 = hk + 1 \/ C_cmp(bh_val[i1], bh_val[i2])
        THEN IF C_cmp(val, bh_val[i1]) THEN <<i, bh_val, bh_ids>>
             ELSE SiftDown(i1, hk, [bh_val EXCEPT ![i] = bh_val[i1]],
                           [bh_ids EXCEPT ![i] = bh_ids[i1]], val)
        ELSE IF C_cmp(val, bh_val[i2]) THEN <<i, bh_val, bh_ids>>
             ELSE SiftDown(i2, hk, [bh_val EXCEPT ![i] = bh_val[i2]],
                           [bh_ids EXCEPT ![i] = bh_ids[i2]], val)

\* variant: the last element's value is moved into the hole, its id is not
heap_popDropId(hk, bh_val, bh_ids) ==
  LET r == SiftDown(1, hk, bh_val, bh_ids, bh_val[hk])
  IN  <<[r[2] EXCEPT ![r[1]] = bh_val[hk]], r[3]>>

\* heap_pop(k, bh_val, bh_ids): k is the size before the pop
heap_pop(hk, bh_val, bh_ids) ==
  LET r == SiftDown(1, hk, bh_val, bh_ids, bh_val[hk])
  IN  <<[r[2] EXCEPT ![r[1]] = bh_val[hk]], [r[3] EXCEPT ![r[1]] = bh_ids[hk]]>>

\* ---- sqrt of the finishing transform, on the model's integers ----
Sqrt(x) ==
  IF x < 0 THEN NaN
  ELSE CHOOSE r \in 0..x : r * r <= x /\ (r + 1) * (r + 1) > x

VARIABLES
  \* merge_tables: parameters, input and output arrays
  nshard, n, k, translations, all_D, all_I, distances, labels,
  \* merge_tables: the omp for over rows and each thread's scratch
  mpc, todo, wpc, wrow, wj, pointer, shard_ids, heap_vals, heap_size,
  \* history of the merge: output slots written, the (shard, position) popped
  \* for each slot, and whether a read left its array
  wrote, src, oob,
  \* brute_force_knn: position, arguments, the shard tasks, the device outputs
  bpc, metric, sizes, xlat, xlen, tpc, tok, stream, slice, res_D, res_I,
  \* brute_force_knn: the lines the shard tasks have written to std::cout
  cout

mergeVars == <<nshard, n, k, translations, all_D, all_I, distances, labels,
               mpc, todo, wpc, wrow, wj, pointer, shard_ids, heap_vals,
               heap_size, wrote, src, oob>>
knnVars == <<bpc, metric, sizes, xlat, xlen, tpc, tok, stream, slice,
            res_D, res_I, cout>>
vars == <<mergeVars, knnVars>>

Shards == 0..(nshard - 1)
Rows == 0..(n - 1)
Slots == 0..(k - 1)
\* size_t stride = n * k
stride == n * k
\* D_in[stride * s + p] with D_in = all_distances + i * k
In(i, s, p) == i * k + stride * s + p
\* variant: every row is written at the start of the output arrays
OutNoRow(i, j) == j
\* D[j] with D = distances + i * k
Out(i, j) == i * k + j
NoSrc == <<-1, -1>>

\* shapes (nshard, n, k) whose stacked buffers fit the model
Shapes(maxs, maxn) ==
  {c \in (1..maxs) \X (1..maxn) \X (0..MaxK) : c[1] * c[2] * c[3] <= MaxCells}

\* candidate buffers: each cell is (FltMax, -1) or (d, its position in the row)
CellChoices == {-1} \cup Dists
LabelOf(v, c, kk) == IF v[c] = -1 THEN -1 ELSE c % kk
DistOf(v, c) == IF v[c] = -1 THEN FltMax ELSE v[c]

\* the scratch a thread allocates on entering the parallel region (lines 54-58)
\* and the state before any row is taken
InitScratch(ns) ==
  /\ wpc = [w \in Workers |-> "fresh"]
  /\ wrow = [w \in Workers |-> 0]
  /\ wj = [w \in Workers |-> 0]
  /\ pointer = [w \in Workers |-> [s \in 0..(ns - 1) |-> 0]]
  /\ shard_ids = [w \in Workers |-> [x \in 1..ns |-> 0]]
  /\ heap_vals = [w \in Workers |-> [x \in 1..ns |-> 0]]
  /\ heap_size = [w \in Workers |-> 0]
  /\ todo = {}
  /\ wrote = {}
  /\ oob = FALSE

\* line 46: the translations tables of a direct call: shards numbered one
\* after the other in steps of MaxK, or every shard at the same offset MaxK
TransTables(ns) ==
  {[s \in 0..(ns - 1) |-> MaxK * s], [s \in 0..(ns - 1) |-> MaxK]}

\* a direct call of merge_tables on arbitrary candidate buffers
InitMerge ==
  \E c \in Shapes(MaxShard, MaxN) :
    /\ nshard = c[1] /\ n = c[2] /\ k = c[3]
    /\ translations \in TransTables(c[1])
    /\ \E v \in [0..(c[1] * c[2] * c[3] - 1) -> CellChoices] :
         /\ all_I = [x \in DOMAIN v |-> LabelOf(v, x, c[3])]
         /\ all_D = [x \in DOMAIN v |-> DistOf(v, x)]
    /\ distances = [x \in 0..(c[2] * c[3] - 1) |-> 0]
    /\ labels = [x \in 0..(c[2] * c[3] - 1) |-> 0]
    /\ src = [x \in 0..(c[2] * c[3] - 1) |-> NoSrc]
    /\ mpc = "call"
    /\ InitScratch(c[1])
    /\ bpc = "none" /\ metric = "L2" /\ sizes = <<>>
    /\ xlat = -1 /\ xlen = 0
    /\ tpc = <<>> /\ tok = <<>> /\ stream = <<>> /\ slice = <<>>
    /\ res_D = <<>> /\ res_I = <<>>
    /\ cout = {}

\* ---- merge_tables ----

\* line 47: if (k == 0) return;
\* variant: the early return left out
K0ReturnNever == FALSE
K0Return == k = 0

\* lines 47-51
MergeEntry ==
  /\ mpc = "call"
  /\ IF K0Return THEN mpc' = "ret" /\ todo' = todo
                 ELSE mpc' = "run" /\ todo' = Rows
  /\ UNCHANGED <<nshard, n, k, translations, all_D, all_I, distances, labels,
                 wpc, wrow, wj, pointer, shard_ids, heap_vals, heap_size,
                 wrote, src, oob>>
  /\ UNCHANGED knnVars

\* lines 67-72: the seeding loop over the shards, from shard s on
RECURSIVE SeedLoop(_, _, _, _, _)
SeedLoop(s, i, hs, vals, ids) ==
  IF s >= nshard
    THEN [hs |-> hs, vals |-> vals, ids |-> ids, oob |-> FALSE]
  ELSE IF In(i, s, 0) \notin DOMAIN all_I
    THEN [hs |-> hs, vals |-> vals, ids |-> ids, oob |-> TRUE]
  ELSE IF all_I[In(i, s, 0)] >= 0
    THEN LET h == heap_push(hs + 1, vals, ids, all_D[In(i, s, 0)], s)
         IN  SeedLoop(s + 1, i, hs + 1, h[1], h[2])
  ELSE SeedLoop(s + 1, i, hs, vals, ids)

\* lines 60-72: a thread takes row i of the omp for and seeds its heap.
\* Threads that have not taken a row yet ("fresh") are interchangeable, so the
\* lowest-numbered of them stands for whichever thread takes its first row.
RowSeed(w) ==
  /\ mpc = "run" /\ wpc[w] \in {"fresh", "idle"}
  /\ wpc[w] = "fresh" => \A v \in Workers : v < w => wpc[v] # "fresh"
  /\ \E i \in todo :
       LET r == SeedLoop(0, i, 0, heap_vals[w], shard_ids[w])
       IN  /\ todo' = todo \ {i}
           /\ wrow' = [wrow EXCEPT ![w] = i]
           /\ wj' = [wj EXCEPT ![w] = 0]
           /\ pointer' = [pointer EXCEPT ![w] = [s \in Shards |-> 0]]
           /\ heap_vals' = [heap_vals EXCEPT ![w] = r.vals]
           /\ shard_ids' = [shard_ids EXCEPT ![w] = r.ids]
           /\ heap_size' = [heap_size EXCEPT ![w] = r.hs]
           /\ oob' = (oob \/ r.oob)
           /\ IF r.oob THEN mpc' = "ub" /\ wpc' = wpc
                       ELSE mpc' = mpc /\ wpc' = [wpc EXCEPT ![w] = "emit"]
  /\ UNCHANGED <<nshard, n, k, translations, all_D, all_I, distances, labels,
                 wrote, src>>
  /\ UNCHANGED knnVars

\* line 90: p < k && I_in[stride * s + p] >= 0
\* variant: the label of the next entry is not looked at
HasNextAnyLabel(i, s, p) == p < k
\* variant: p is held against the end of the buffer, not the end of the row
HasNextInBuffer(i, s, p) ==
  In(i, s, p) \in DOMAIN all_I /\ all_I[In(i, s, p)] >= 0
HasNext(i, s, p) == p < k /\ all_I[In(i, s, p)] >= 0

\* line 86: I_in[stride * s + p] + translations[s]
\* variant: the local label is written as it is
EmitLabelNoTranslation(i, s, p) == all_I[In(i, s, p)]
EmitLabel(i, s, p) == all_I[In(i, s, p)] + translations[s]

\* line 80: D[j] = C::neutral()
EmptyDist == C_neutral

\* line 89: p++
\* variant: the read pointer is left where it was
AdvanceStuck(p) == p
Advance(p) == p + 1

\* lines 77-93: one iteration of the loop over the output slots of a row.
\* translations is a bare pointer: line 86 on a shard the table has no entry
\* for reads past its end, and the behaviour of the call is undefined from there
EmitSlot(w) ==
  /\ mpc = "run" /\ wpc[w] = "emit"
  /\ IF heap_size[w] > 0 /\ shard_ids[w][1] \notin DOMAIN translations
     THEN
         /\ oob' = TRUE /\ mpc' = "ub"
         /\ UNCHANGED <<distances, labels, src, pointer, heap_vals, shard_ids,
                        heap_size, wrote, wj, wpc>>
     ELSE
     LET i == wrow[w]
         j == wj[w]
         o == Out(i, j)
     IN  /\ UNCHANGED <<mpc, oob>>
         /\ IF heap_size[w] = 0
              THEN /\ labels' = [labels EXCEPT ![o] = -1]
                   /\ distances' = [distances EXCEPT ![o] = EmptyDist]
                   /\ src' = [src EXCEPT ![o] = NoSrc]
                   /\ UNCHANGED <<pointer, heap_vals, shard_ids, heap_size>>
              ELSE LET s == shard_ids[w][1]
                       p == pointer[w][s]
                       hs == heap_size[w]
                       popped == heap_pop(hs, heap_vals[w], shard_ids[w])
                       q == Advance(p)
                       more == HasNext(i, s, q)
                       pushed == IF more
                                   THEN heap_push(hs, popped[1], popped[2],
                                                  all_D[In(i, s, q)], s)
                                   ELSE popped
                   IN  /\ distances' = [distances EXCEPT ![o] = heap_vals[w][1]]
                       /\ labels' = [labels EXCEPT ![o] = EmitLabel(i, s, p)]
                       /\ src' = [src EXCEPT ![o] = <<s, p>>]
                       /\ pointer' = [pointer EXCEPT ![w][s] = q]
                       /\ heap_vals' = [heap_vals EXCEPT ![w] = pushed[1]]
                       /\ shard_ids' = [shard_ids EXCEPT ![w] = pushed[2]]
                       /\ heap_size' = [heap_size EXCEPT
                                          ![w] = IF more THEN hs ELSE hs - 1]
         /\ wrote' = wrote \cup {o}
         /\ wj' = [wj EXCEPT ![w] = j + 1]
         /\ wpc' = [wpc EXCEPT ![w] = IF j + 1 < k THEN "emit" ELSE "idle"]
  /\ UNCHANGED <<nshard, n, k, translations, all_D, all_I, todo, wrow>>
  /\ UNCHANGED knnVars

\* lines 95-97: the omp for has handed out every row and every thread has
\* reached the end of the parallel region
MergeReturn ==
  /\ mpc = "run" /\ todo = {}
  /\ \A w \in Workers : wpc[w] \in {"fresh", "idle"}
  /\ mpc' = "ret"
  /\ UNCHANGED <<nshard, n, k, translations, all_D, all_I, distances, labels,
                 todo, wpc, wrow, wj, pointer, shard_ids, heap_vals, heap_size,
                 wrote, src, oob>>
  /\ UNCHANGED knnVars

MergeNext ==
  \/ MergeEntry
  \/ \E w \in Workers : RowSeed(w)
  \/ \E w \in Workers : EmitSlot(w)
  \/ MergeReturn

SpecMerge == InitMerge /\ [][MergeNext]_vars

\* ---- brute_force_knn ----

\* the values of Distance::DistanceType the model distinguishes
Metrics == {"L2", "L2Sqrt", "L1"}

\* line 119: the lengths translations->size() of a caller's table: one entry
\* for each shard, or one entry short
TableLengths(ns, x) == IF x = -1 THEN {0} ELSE {ns, ns - 1}

\* a call of brute_force_knn; xlat = -1 stands for translations == nullptr,
\* another value t for a caller's table of xlen entries, translations[s] = t * s
Init ==
  \E c \in Shapes(MaxParams, MaxQueries), m \in Metrics, x \in {-1, MaxK} :
    \E sz \in [0..(c[1] - 1) -> 0..MaxSize], xl \in TableLengths(c[1], x) :
      /\ nshard = c[1] /\ n = c[2] /\ k = c[3]
      /\ metric = m /\ xlat = x /\ xlen = xl /\ sizes = sz
      /\ translations = <<>>
      /\ all_D = [y \in 0..(c[1] * c[2] * c[3] - 1) |-> FltMax]
      /\ all_I = [y \in 0..(c[1] * c[2] * c[3] - 1) |-> -1]
      /\ distances = [y \in 0..(c[2] * c[3] - 1) |-> 0]
      /\ labels = [y \in 0..(c[2] * c[3] - 1) |-> 0]
      /\ src = [y \in 0..(c[2] * c[3] - 1) |-> NoSrc]
      /\ res_D = [y \in 0..(c[2] * c[3] - 1) |-> 0]
      /\ res_I = [y \in 0..(c[2] * c[3] - 1) |-> 0]
      /\ mpc = "idle"
      /\ InitScratch(c[1])
      /\ bpc = "entry"
      /\ tpc = [i \in 0..(c[1] - 1) |-> "start"]
      /\ tok = [i \in 0..(c[1] - 1) |-> "none"]
      /\ stream = [i \in 0..(c[1] - 1) |-> FALSE]
      /\ slice = [i \in 0..(c[1] - 1) |-> "uninit"]
      /\ cout = {}

\* lines 122-125: the ASSERT on DistanceType
MetricSupported == metric \in {"L2", "L2Sqrt"}

BF_CheckMetric ==
  /\ bpc = "entry"
  /\ bpc' = IF MetricSupported THEN "ranges" ELSE "threw"
  /\ UNCHANGED <<metric, sizes, xlat, xlen, cout,
                 tpc, tok, stream, slice, res_D, res_I>>
  /\ UNCHANGED mergeVars

\* lines 132-137: total_n before iteration i of the loop
\* variant: total_n is pushed after sizes[i] was added to it
RECURSIVE TotalThrough(_)
TotalThrough(i) == sizes[i] + (IF i = 0 THEN 0 ELSE TotalThrough(i - 1))
RECURSIVE TotalBefore(_)
TotalBefore(i) == IF i = 0 THEN 0 ELSE TotalBefore(i - 1) + sizes[i - 1]

\* lines 127-146: id_ranges
BF_Ranges ==
  /\ bpc = "ranges"
  /\ translations' = IF xlat = -1
                       THEN [i \in Shards |-> TotalBefore(i)]
                       ELSE [i \in 0..(xlen - 1) |-> xlat * i]
  /\ bpc' = "alloc"
  /\ UNCHANGED <<metric, sizes, xlat, xlen, cout,
                 tpc, tok, stream, slice, res_D, res_I>>
  /\ UNCHANGED <<nshard, n, k, all_D, all_I, distances, labels,
                 mpc, todo, wpc, wrow, wj, pointer, shard_ids, heap_vals,
                 heap_size, wrote, src, oob>>

\* lines 148-158: result_D, result_I, all_D, all_I are allocated and left
\* uninitialised (slice[i] = "uninit"); the caller's stream is synchronised,
\* and an error of that synchronisation is thrown to the caller
BF_Alloc ==
  /\ bpc = "alloc"
  /\ bpc' \in {"dispatch", "threw"}
  /\ UNCHANGED <<metric, sizes, xlat, xlen, cout,
                 tpc, tok, stream, slice, res_D, res_I>>
  /\ UNCHANGED mergeVars

\* the shard tasks run from the start of the parallel region (line 160) until
\* the process ends
TasksLive == bpc \in {"dispatch", "merge", "copy", "returned"}

\* line 194: "Exception occurred: " and e.what(), which names a CUDA error
\* and not a shard; lines 198-201: "Input memory for " and the shard's pointer
Line(i, how) ==
  IF how = "failed" THEN {[text |-> "Exception occurred", shard |-> -1]}
  ELSE IF how = "unresolved" THEN {[text |-> "Input memory", shard |-> i]}
  ELSE {}

\* lines 191-195 and 197-202: the task ends; a task that failed prints a line
TaskEnds(i, how) ==
  /\ tpc' = [tpc EXCEPT ![i] = "done"]
  /\ tok' = [tok EXCEPT ![i] = how]
  /\ cout' = cout \cup Line(i, how)

\* lines 164-172: cudaPointerGetAttributes, then cudaSetDevice under a
\* CUDA_CHECK that is outside the try block: its exception leaves the
\* parallel region and ends the process
T_Resolve(i) ==
  /\ TasksLive /\ tpc[i] = "start"
  /\ \/ /\ TaskEnds(i, "unresolved")
        /\ bpc' = bpc
     \/ /\ tpc' = [tpc EXCEPT ![i] = "try"]
        /\ UNCHANGED <<tok, bpc, cout>>
     \/ /\ bpc' = "terminated"
        /\ UNCHANGED <<tpc, tok, cout>>
  /\ UNCHANGED <<metric, sizes, xlat, xlen, stream, slice, res_D, res_I>>
  /\ UNCHANGED mergeVars

\* lines 174-182: StandardGpuResources and cudaStreamCreate, inside the try
T_Acquire(i) ==
  /\ TasksLive /\ tpc[i] = "try"
  /\ \/ /\ tpc' = [tpc EXCEPT ![i] = "search"]
        /\ stream' = [stream EXCEPT ![i] = TRUE]
        /\ UNCHANGED <<tok, cout>>
     \/ /\ TaskEnds(i, "failed")
        /\ stream' = stream
  /\ UNCHANGED <<bpc, metric, sizes, xlat, xlen, slice, res_D, res_I>>
  /\ UNCHANGED mergeVars

\* what the backend returns for one query row of a shard of sz points: the
\* min(sz, k) nearest in ascending distance, then (FltMax, -1) padding
BackendRows(sz) ==
  {r \in [Slots -> CellChoices] :
     /\ \A p \in Slots : (r[p] # -1) <=> (p < sz)
     /\ \A p \in Slots : (p + 1 < sz /\ p + 1 < k) => r[p] <= r[p + 1]}

ShardOf(x) == x \div stride
RowOf(x) == (x % stride) \div k

\* lines 184-186: faiss::gpu::bruteForceKnn into the shard's slice of all_D, all_I
T_Search(i) ==
  /\ TasksLive /\ tpc[i] = "search"
  /\ \/ /\ \E rs \in [Rows -> BackendRows(sizes[i])] :
             /\ all_D' = [x \in DOMAIN all_D |->
                            IF ShardOf(x) = i THEN DistOf(rs[RowOf(x)], x % k)
                                              ELSE all_D[x]]
             /\ all_I' = [x \in DOMAIN all_I |->
                            IF ShardOf(x) = i
                              THEN (IF rs[RowOf(x)][x % k] = -1 THEN -1 ELSE x % k)
                              ELSE all_I[x]]
        /\ slice' = [slice EXCEPT ![i] = "inflight"]
        /\ tpc' = [tpc EXCEPT ![i] = "sync"]
        /\ UNCHANGED <<tok, cout>>
     \/ /\ TaskEnds(i, "failed")
        /\ UNCHANGED <<all_D, all_I, slice>>
  /\ UNCHANGED <<bpc, metric, sizes, xlat, xlen, stream, res_D, res_I>>
  /\ UNCHANGED <<nshard, n, k, translations, distances, labels,
                 mpc, todo, wpc, wrow, wj, pointer, shard_ids, heap_vals,
                 heap_size, wrote, src, oob>>

\* lines 188-189: cudaPeekAtLastError and cudaStreamSynchronize
T_Sync(i) ==
  /\ TasksLive /\ tpc[i] = "sync"
  /\ \/ /\ slice' = [slice EXCEPT ![i] = "complete"]
        /\ tpc' = [tpc EXCEPT ![i] = "release"]
        /\ UNCHANGED <<tok, cout>>
     \/ /\ TaskEnds(i, "failed")
        /\ slice' = slice
  /\ UNCHANGED <<bpc, metric, sizes, xlat, xlen, stream, res_D, res_I>>
  /\ UNCHANGED mergeVars

\* line 191: cudaStreamDestroy
T_Release(i) ==
  /\ TasksLive /\ tpc[i] = "release"
  /\ \/ /\ stream' = [stream EXCEPT ![i] = FALSE]
        /\ TaskEnds(i, "ok")
     \/ /\ TaskEnds(i, "failed")
        /\ stream' = stream
  /\ UNCHANGED <<bpc, metric, sizes, xlat, xlen, slice, res_D, res_I>>
  /\ UNCHANGED mergeVars

\* lines 160-204: the end of the parallel region, which every thread reaches
\* only after its iterations of the omp for
\* variant: the merge does not wait for the tasks
BarrierMissing == TRUE
Barrier == \A i \in Shards : tpc[i] = "done"

\* what a cell that was never written may hold: the model samples a -1
\* label and a valid label with the smallest distance
GarbageChoices == {-1, 0}

\* the cells of all_D, all_I that no completed search has written
Indeterminate == {x \in DOMAIN all_I : slice[ShardOf(x)] # "complete"}

\* lines 206-207: merge_tables is called on result_D, result_I, all_D, all_I
\* and id_ranges; a cell never written reads as whatever the memory holds
BF_MergeCall ==
  /\ bpc = "dispatch" /\ Barrier
  /\ bpc' = "merge"
  /\ mpc' = "call"
  /\ \E g \in [Indeterminate -> GarbageChoices] :
       /\ all_D' = [x \in DOMAIN all_D |->
                      IF x \in Indeterminate THEN DistOf(g, x) ELSE all_D[x]]
       /\ all_I' = [x \in DOMAIN all_I |->
                      IF x \in Indeterminate THEN LabelOf(g, x, k) ELSE all_I[x]]
  /\ UNCHANGED <<metric, sizes, xlat, xlen, cout,
                 tpc, tok, stream, slice, res_D, res_I>>
  /\ UNCHANGED <<nshard, n, k, translations, distances, labels,
                 todo, wpc, wrow, wj, pointer, shard_ids, heap_vals,
                 heap_size, wrote, src, oob>>

\* lines 209-213: unaryOp(res_D, res_D, n * k, sqrt) on the device output
BF_Transform ==
  /\ bpc = "merge" /\ mpc = "ret"
  /\ res_D' = IF metric = "L2Sqrt"
                THEN [x \in DOMAIN res_D |-> Sqrt(res_D[x])]
                ELSE res_D
  /\ bpc' = "copy"
  /\ UNCHANGED <<metric, sizes, xlat, xlen, cout,
                 tpc, tok, stream, slice, res_I>>
  /\ UNCHANGED mergeVars

\* lines 215-225: updateDevice of result_D, result_I into res_D, res_I, then
\* the buffers are freed and the call returns
BF_Copy ==
  /\ bpc = "copy"
  /\ res_D' = distances
  /\ res_I' = labels
  /\ bpc' = "returned"
  /\ UNCHANGED <<metric, sizes, xlat, xlen, cout,
                 tpc, tok, stream, slice>>
  /\ UNCHANGED mergeVars

KnnNext ==
  \/ BF_CheckMetric
  \/ BF_Ranges
  \/ BF_Alloc
  \/ \E i \in Shards : T_Resolve(i)
  \/ \E i \in Shards : T_Acquire(i)
  \/ \E i \in Shards : T_Search(i)
  \/ \E i \in Shards : T_Sync(i)
  \/ \E i \in Shards : T_Release(i)
  \/ BF_MergeCall
  \/ BF_Transform
  \/ BF_Copy

Next == KnnNext \/ MergeNext

Spec == Init /\ [][Next]_vars

\* ======================= properties =======================

\* every output slot of row i has been written
RowWritten(i) == \A j \in Slots : Out(i, j) \in wrote
\* the valid candidates of row i, as (shard, position)
Cand(i) == {c \in Shards \X Slots : all_I[In(i, c[1], c[2])] >= 0}
CandDist(i, c) == all_D[In(i, c[1], c[2])]
CandPair(i, c) ==
  <<all_D[In(i, c[1], c[2])], all_I[In(i, c[1], c[2])] + translations[c[1]]>>
OutPair(i, j) == <<distances[Out(i, j)], labels[Out(i, j)]>>
\* each shard's valid entries of row i are in ascending distance order
SortedInput(i) ==
  \A s \in Shards : \A p, q \in Slots :
    (p < q /\ all_I[In(i, s, p)] >= 0 /\ all_I[In(i, s, q)] >= 0)
      => all_D[In(i, s, p)] <= all_D[In(i, s, q)]
\* no shard has a valid entry after a -1 in row i
PrefixValid(i) ==
  \A s \in Shards : \A p \in Slots :
    (p > 0 /\ all_I[In(i, s, p)] >= 0) => all_I[In(i, s, p - 1)] >= 0

\* the first min(k, m) slots of row i hold the min(k, m) smallest of the m
\* valid candidates: slot j holds the (j+1)-th smallest distance, the slots
\* ascend, and the (distance, global index) pairs written are pairs of the
\* union, none used more often than the union holds it
KSmallest(i) ==
  LET mm == Min(k, Cardinality(Cand(i)))
  IN  /\ \A j \in 0..(mm - 1) :
           /\ labels[Out(i, j)] # -1
           /\ Cardinality({c \in Cand(i) : CandDist(i, c) < distances[Out(i, j)]}) <= j
           /\ Cardinality({c \in Cand(i) : CandDist(i, c) <= distances[Out(i, j)]}) >= j + 1
           /\ Cardinality({j2 \in 0..(mm - 1) : OutPair(i, j2) = OutPair(i, j)})
                <= Cardinality({c \in Cand(i) : CandPair(i, c) = OutPair(i, j)})
      /\ \A j \in 0..(mm - 2) : distances[Out(i, j)] <= distances[Out(i, j + 1)]

\* C1 as stated: for sorted shard rows with -1 entries at arbitrary positions,
\* each merged row holds exactly the k smallest (distance, global index) pairs
\* of the union of the valid candidates, in ascending distance order.
C1_AnyHoles ==
  \A i \in Rows : (RowWritten(i) /\ SortedInput(i)) => KSmallest(i)

\* C1 amended: the same, for sorted shard rows in which no valid entry follows
\* a -1 (the -1 entries are trailing padding).
C1_KSmallestOfUnion ==
  \A i \in Rows :
    (RowWritten(i) /\ SortedInput(i) /\ PrefixValid(i)) => KSmallest(i)

\* the scenario of the specification: two shards, k = 2, rows (0, 4) and (1, 4),
\* translations (0, 2): the merged row is (0, 0), (1, 2)
C1_Witness ==
  /\ nshard = 2 /\ n = 1 /\ k = 2 /\ mpc = "ret"
  /\ \A x \in 0..3 : all_I[x] = x % 2
  /\ all_D[0] = 0 /\ all_D[1] = 4 /\ all_D[2] = 1 /\ all_D[3] = 4
  /\ translations[1] = 2
  /\ OutPair(0, 0) = <<0, 0>> /\ OutPair(0, 1) = <<1, 2>>

\* C2: every written label that is not -1 is local_index + translations[s] for
\* the shard s popped for that slot and the entry at its read pointer p, a
\* valid entry of the same row, and the slot's distance is that entry's.
C2_Translation ==
  \A o \in wrote :
    labels[o] # -1 =>
      /\ src[o] # NoSrc
      /\ LET c == In(o \div k, src[o][1], src[o][2])
         IN  /\ all_I[c] >= 0
             /\ labels[o] = all_I[c] + translations[src[o][1]]
             /\ distances[o] = all_D[c]

C2_Witness ==
  \E o \in wrote :
    /\ src[o] # NoSrc /\ src[o][1] >= 1 /\ src[o][2] >= 1
    /\ translations[src[o][1]] > 0
    /\ labels[o] = all_I[In(o \div k, src[o][1], src[o][2])] + translations[src[o][1]]

\* C3 as stated, for the calls in which every shard search succeeded: in every
\* merged row of a brute_force_knn call the distances are non-decreasing
\* across all k slots, sentinel-filled slots included.
C3_Monotone ==
  \A i \in Rows :
    (bpc = "merge" /\ RowWritten(i) /\ \A s \in Shards : tok[s] = "ok") =>
      \A j \in 0..(k - 2) : distances[Out(i, j)] <= distances[Out(i, j + 1)]

\* slots 0..m-1 of row i are valid and slots m..k-1 are (sentinel, -1)
SentinelTail(i, m) ==
  /\ \A j \in 0..(m - 1) : labels[Out(i, j)] # -1
  /\ \A j \in m..(k - 1) : labels[Out(i, j)] = -1 /\ distances[Out(i, j)] = C_neutral

\* C4 as stated: with m < k valid candidates in a row, whatever their
\* positions, the first m slots are valid and the last k - m are (sentinel, -1).
C4_AnyHoles ==
  \A i \in Rows :
    (RowWritten(i) /\ Cardinality(Cand(i)) < k)
      => SentinelTail(i, Cardinality(Cand(i)))

\* C4 amended: the same, for rows in which no valid entry follows a -1.
C4_SentinelTail ==
  \A i \in Rows :
    (RowWritten(i) /\ PrefixValid(i) /\ Cardinality(Cand(i)) < k)
      => SentinelTail(i, Cardinality(Cand(i)))

C4_Witness ==
  \E i \in Rows :
    /\ RowWritten(i) /\ PrefixValid(i) /\ nshard >= 2 /\ k = 2
    /\ Cardinality(Cand(i)) = 1
    /\ labels[Out(i, 0)] # -1 /\ labels[Out(i, 1)] = -1

\* slots j < j2 of row i hold candidates of equal distance
Tied(i, j, j2) ==
  /\ j < j2 /\ src[Out(i, j)] # NoSrc /\ src[Out(i, j2)] # NoSrc
  /\ distances[Out(i, j)] = distances[Out(i, j2)]

HeadsAt(i, d) ==
  {s \in Shards : all_I[In(i, s, 0)] >= 0 /\ all_D[In(i, s, 0)] = d}

C6_MergeAfterTasks ==
  mpc # "idle" =>
    \A i \in Shards :
      /\ tpc[i] = "done"
      /\ slice[i] = "complete" \/ tok[i] \in {"failed", "unresolved"}

C6_Witness ==
  /\ bpc = "merge" /\ mpc = "run" /\ nshard = 2 /\ wrote # {}
  /\ tok[0] = "ok" /\ tok[1] = "ok"
  /\ \E o \in wrote : src[o] # NoSrc /\ src[o][1] = 1

\* C7 as stated: no failure of a shard task ends the call: the other tasks and
\* the batch go on.
C7_NoAbort == bpc # "terminated"

\* C8 as stated: no output slot holds an entry of the slice of a shard whose
\* task failed.
C8_FailedShardExcluded ==
  \A o \in wrote :
    src[o] # NoSrc => tok[src[o][1]] \notin {"failed", "unresolved"}

\* C9 as stated: on return every valid slot of res_D holds the square root of
\* the merged distance with L2_SQRT, and the merged distance itself with L2.
C9_TransformAfterMerge ==
  bpc = "returned" =>
    \A x \in DOMAIN res_D :
      labels[x] # -1 =>
        res_D[x] = IF metric = "L2Sqrt" THEN Sqrt(distances[x]) ELSE distances[x]

\* C10: a call with k = 0 returns without a read outside its arrays and
\* writes no output slot.
C10_K0NoOp ==
  k = 0 => (wrote = {} /\ ~oob /\ mpc # "ub")

C10_Witness ==
  k = 0 /\ mpc = "ret" /\ n = 2 /\ nshard = 3 /\ wrote = {}

\* ---- C11 ----
\* C11: when the caller passes no translations (xlat = -1), from the end of
\* lines 127-137 on the table has exactly n_params entries, entry 0 is 0 and
\* entry i + 1 is entry i plus sizes[i]; and every label merge_tables emits
\* is the local label plus that entry of the shard it came from.
C11_PrefixSumTable ==
  (xlat = -1 /\ bpc \in {"alloc", "dispatch", "merge", "copy", "returned",
                         "terminated"})
    => /\ DOMAIN translations = Shards
       /\ translations[0] = 0
       /\ \A i \in Shards :
            (i + 1) \in Shards => translations[i + 1] = translations[i] + sizes[i]
       /\ \A i \in Rows, j \in Slots :
            (Out(i, j) \in wrote /\ src[Out(i, j)] # NoSrc)
              => LET s == src[Out(i, j)][1]
                     p == src[Out(i, j)][2]
                 IN  labels[Out(i, j)] = all_I[In(i, s, p)] + translations[s]

\* two shards of two and one points, no translations passed: the merged row
\* holds a neighbour of shard 1 whose label was moved by sizes[0]
C11_Witness ==
  /\ xlat = -1 /\ bpc = "returned" /\ nshard = 2 /\ k = 2
  /\ sizes[0] = 2 /\ sizes[1] = 1
  /\ translations[1] = 2
  /\ \E j \in Slots : src[Out(0, j)] = <<1, 0>> /\ res_I[Out(0, j)] = 2

\* ---- C12 ----
\* the two configuration errors of a call: a metric outside the supported
\* pair, a caller's table whose length is not the number of shards
ConfigError == ~MetricSupported \/ (xlat # -1 /\ xlen # nshard)

\* C12: when the call has a configuration error, no shard task ever leaves
\* its start, no output slot is written by the merge and the call does not
\* reach its return.
C12_FailFast ==
  ConfigError => /\ \A i \in Shards : tpc[i] = "start"
                 /\ wrote = {}
                 /\ bpc # "returned"

\* ---- C13 ----
\* C13: when the call has returned, every shard whose task failed is named,
\* with the kind of its failure, by something the call has put out.
C13_FailureSurfaced ==
  bpc = "returned"
    => \A i \in Shards :
         tok[i] # "ok" => \E e \in cout : e.shard = i

\* ---- C14 ----
\* C14 as stated: with one shard, every slot of a written row whose local
\* entry is valid holds that entry's distance and its label plus
\* translations[0], and every slot whose local entry is -1 holds label -1.
C14_SlotBySlot ==
  nshard = 1 =>
    \A i \in Rows : RowWritten(i) =>
      \A j \in Slots :
        IF all_I[In(i, 0, j)] >= 0
          THEN /\ distances[Out(i, j)] = all_D[In(i, 0, j)]
               /\ labels[Out(i, j)] = all_I[In(i, 0, j)] + translations[0]
          ELSE labels[Out(i, j)] = -1

\* C14 amended: with one shard whose row has no valid entry behind a -1,
\* every slot of a written row whose local entry is valid holds that entry's
\* distance and its label plus translations[0], in the local order, and
\* every other slot holds the sentinel distance and label -1.
C14_SingleShardPrefix ==
  nshard = 1 =>
    \A i \in Rows : (RowWritten(i) /\ PrefixValid(i)) =>
      \A j \in Slots :
        IF all_I[In(i, 0, j)] >= 0
          THEN /\ distances[Out(i, j)] = all_D[In(i, 0, j)]
               /\ labels[Out(i, j)] = all_I[In(i, 0, j)] + translations[0]
               /\ src[Out(i, j)] = <<0, j>>
          ELSE /\ distances[Out(i, j)] = C_neutral
               /\ labels[Out(i, j)] = -1

\* one shard at offset MaxK whose row of two is not in ascending order: the
\* output keeps the local order
C14_Witness ==
  /\ nshard = 1 /\ n = 1 /\ k = 2 /\ mpc = "ret"
  /\ translations[0] = MaxK
  /\ all_I[0] = 0 /\ all_I[1] = 1 /\ all_D[0] = 4 /\ all_D[1] = 1
  /\ distances[0] = 4 /\ distances[1] = 1
  /\ labels[0] = MaxK /\ labels[1] = MaxK + 1

\* ---- C15 ----
\* C15: a shard task that has ended holds no stream: the stream it created
\* at line 178 has been destroyed, whichever way the task ended.
C15_StreamReleased ==
  \A i \in Shards : tpc[i] = "done" => ~stream[i]

\* ---- C16 ----
\* a thread that is inside a row or has finished one
InRow(w) == mpc \in {"run", "ret"} /\ wpc[w] \in {"emit", "idle"}

\* C16: between the iterations of the output loop a thread's heap has
\* between 0 and nshard entries, no two of them of the same shard, and the
\* entry of shard s is the distance of the valid candidate at s's read
\* pointer in the thread's row.
C16_OneHeadPerShard ==
  \A w \in Workers : InRow(w) =>
    LET i == wrow[w]
        hs == heap_size[w]
    IN  /\ 0 <= hs /\ hs <= nshard
        /\ \A x, y \in 1..hs : x # y => shard_ids[w][x] # shard_ids[w][y]
        /\ \A x \in 1..hs :
             LET s == shard_ids[w][x]
             IN  /\ s \in Shards
                 /\ pointer[w][s] < k
                 /\ all_I[In(i, s, pointer[w][s])] >= 0
                 /\ heap_vals[w][x] = all_D[In(i, s, pointer[w][s])]

\* three shards: after the first slot the heap is full again, the popped
\* shard's head being its second entry
C16_Witness ==
  \E w \in Workers :
    /\ InRow(w) /\ nshard = 3 /\ k = 2 /\ wj[w] = 1
    /\ heap_size[w] = 3
    /\ \E s \in Shards : pointer[w][s] = 1

\* ---- C17 ----
\* row i merged by itself on scratch that no row has used: the (distance,
\* label) pairs of slots j .. k - 1, given the heap and the read pointers
\* before slot j
RECURSIVE AloneFrom(_, _, _, _, _, _)
AloneFrom(i, j, hs, vals, ids, ptr) ==
  IF j >= k THEN <<>>
  ELSE IF hs = 0
    THEN <<<<EmptyDist, -1>>>> \o AloneFrom(i, j + 1, hs, vals, ids, ptr)
  ELSE LET s == ids[1]
           p == ptr[s]
           popped == heap_pop(hs, vals, ids)
           q == Advance(p)
           more == HasNext(i, s, q)
           pushed == IF more
                       THEN heap_push(hs, popped[1], popped[2],
                                      all_D[In(i, s, q)], s)
                       ELSE popped
       IN  <<<<vals[1], EmitLabel(i, s, p)>>>>
             \o AloneFrom(i, j + 1, IF more THEN hs ELSE hs - 1,
                          pushed[1], pushed[2], [ptr EXCEPT ![s] = q])

Alone(i) ==
  LET r == SeedLoop(0, i, 0, [x \in 1..nshard |-> 0], [x \in 1..nshard |-> 0])
  IN  AloneFrom(i, 0, r.hs, r.vals, r.ids, [s \in Shards |-> 0])

\* C17: whichever thread merges row i, after whichever rows and beside
\* whichever other thread, each slot of row i that has been written holds
\* what row i merged by itself on unused scratch gives; two threads inside
\* rows are inside different rows, and the slot a thread is about to write
\* has not been written.
C17_RowsIndependent ==
  /\ \A i \in Rows :
       (\E j \in Slots : Out(i, j) \in wrote) =>
         LET ref == Alone(i)
         IN  \A j \in Slots :
               Out(i, j) \in wrote =>
                 <<distances[Out(i, j)], labels[Out(i, j)]>> = ref[j + 1]
  /\ \A w \in Workers :
       (mpc = "run" /\ wpc[w] = "emit") =>
         /\ Out(wrow[w], wj[w]) \notin wrote
         /\ \A v \in Workers :
              (v # w /\ wpc[v] = "emit") => wrow[v] # wrow[w]

\* two rows over three shards, both merged by the same thread one after the
\* other on the same scratch, with different results
C17_Witness ==
  /\ mpc = "ret" /\ n = 2 /\ nshard = 3 /\ k = 1
  /\ wpc[1] = "idle" /\ wpc[2] = "fresh"
  /\ src[Out(0, 0)] = <<2, 0>> /\ src[Out(1, 0)] = <<0, 0>>
  /\ distances[Out(0, 0)] # distances[Out(1, 0)]

\* ---- C18 ----
\* the slots of row i written so far that came from shard s
SlotsFrom(i, s, upto) ==
  {j \in Slots : j < upto /\ src[Out(i, j)] # NoSrc /\ src[Out(i, j)][1] = s}

\* C18: no read has left its array; a thread's read pointer of shard s is
\* the number of entries of s it has emitted for its row, at most k; the
\* pointer of a shard that has a head in the heap, the only kind an entry is
\* emitted from, is below k, and the cell it points at is a cell of the
\* thread's row in that shard's slice.
C18_ReadsInsideRow ==
  /\ ~oob
  /\ \A w \in Workers : InRow(w) =>
       LET i == wrow[w]
       IN  /\ \A s \in Shards :
                /\ pointer[w][s] \in 0..k
                /\ pointer[w][s] = Cardinality(SlotsFrom(i, s, wj[w]))
           /\ \A x \in 1..heap_size[w] :
                LET s == shard_ids[w][x]
                    c == In(i, s, pointer[w][s])
                IN  /\ pointer[w][s] < k
                    /\ c \in DOMAIN all_I
                    /\ ShardOf(c) = s /\ RowOf(c) = i
  /\ \A i \in Rows, j \in Slots :
       (Out(i, j) \in wrote /\ src[Out(i, j)] # NoSrc)
         => src[Out(i, j)][2] \in 0..(k - 1)

\* a thread has emitted both entries of a shard's row 0 and the cell behind
\* them, the first of row 1, holds a valid entry that stays out of the heap
C18_Witness ==
  \E w \in Workers, s \in Shards :
    /\ InRow(w) /\ n = 2 /\ k = 2 /\ wrow[w] = 0 /\ wj[w] = 2
    /\ pointer[w][s] = 2
    /\ all_I[In(1, s, 0)] >= 0
    /\ heap_size[w] = 0

\* ---- C19 ----
\* C19: a written slot that came from position p of shard s has no -1 at
\* any position q <= p of s's row: nothing at or behind the first -1 of a
\* shard's row is emitted.
C19_StreamEndsAtFirstHole ==
  \A i \in Rows, j \in Slots :
    (Out(i, j) \in wrote /\ src[Out(i, j)] # NoSrc) =>
      LET s == src[Out(i, j)][1]
          p == src[Out(i, j)][2]
      IN  \A q \in 0..p : all_I[In(i, s, q)] >= 0

\* two shards, k = 2: shard 0's row is a -1 followed by a valid entry nearer
\* than anything of shard 1, whose row is valid then -1; the merged row is
\* shard 1's only entry and a sentinel slot
C19_Witness ==
  /\ mpc = "ret" /\ nshard = 2 /\ n = 1 /\ k = 2
  /\ all_I[In(0, 0, 0)] = -1
  /\ all_I[In(0, 0, 1)] >= 0 /\ all_D[In(0, 0, 1)] = 0
  /\ all_I[In(0, 1, 0)] >= 0 /\ all_D[In(0, 1, 0)] = 4
  /\ all_I[In(0, 1, 1)] = -1
  /\ src[Out(0, 0)] = <<1, 0>> /\ src[Out(0, 1)] = NoSrc
  /\ labels[Out(0, 1)] = -1

\* ---- C20 ----
\* C20: among the written slots of a row no (shard, position) occurs twice;
\* of two slots from the same shard the earlier one holds the earlier
\* position; and a slot from position p > 0 of a shard is preceded by a slot
\* from position p - 1 of that shard, so the positions emitted from a shard
\* are 0 .. c - 1.
C20_PerShardPrefix ==
  \A i \in Rows, j \in Slots :
    (Out(i, j) \in wrote /\ src[Out(i, j)] # NoSrc) =>
      LET s == src[Out(i, j)][1]
          p == src[Out(i, j)][2]
      IN  /\ \A j2 \in Slots :
               (j2 < j /\ Out(i, j2) \in wrote /\ src[Out(i, j2)] # NoSrc
                  /\ src[Out(i, j2)][1] = s)
                 => src[Out(i, j2)][2] < p
          /\ p > 0 => \E j2 \in Slots :
                        /\ j2 < j /\ Out(i, j2) \in wrote
                        /\ src[Out(i, j2)] = <<s, p - 1>>

\* shard 0's row is not in ascending order and shard 1 ties with its first
\* entry: both slots come from shard 0, in its local order, descending
C20_Witness ==
  /\ mpc = "ret" /\ nshard = 2 /\ n = 1 /\ k = 2
  /\ all_I[In(0, 1, 0)] >= 0 /\ all_D[In(0, 1, 0)] = 4
  /\ src[Out(0, 0)] = <<0, 0>> /\ src[Out(0, 1)] = <<0, 1>>
  /\ distances[Out(0, 0)] = 4 /\ distances[Out(0, 1)] = 0

====
